---- MODULE Spec2Model ----
(***************************************************************************)
(* Model of the LOCKFILE locking protocol of experiment/file/lock/lock.go. *)
(* The file declares the lock Manager interface and documents the protocol *)
(* every pipeline step follows before it operates on cached data.          *)
(* A second part models the BitFunnel repository manager of                *)
(* bfrepo/bfrepo.go (Fetch, Checkout, ConfigureBuild, Build).              *)
(***************************************************************************)
EXTENDS Integers, FiniteSets, Sequences, TLC

\* ---------------------------------------------------------------- bounds
MaxContent == 1     \* datafile contents of a step range over 0..MaxContent
MaxRuns == 2        \* number of protocol runs started in one behaviour
MaxChanges == 1     \* number of out-of-band changes to datafiles

\* ------------------------------------------------------- the fixed pipeline
Stages == {"corpus", "sample", "config", "experiment"}

\* lock.go 28-42: the dependency steps of each kind of lock.
Deps ==
    [s \in Stages |->
        CASE s = "corpus" -> {}
          [] s = "sample" -> {"corpus"}
          [] s = "config" -> {"sample"}
          [] s = "experiment" -> {"config", "sample"}]

Content == 0..MaxContent

\* The empty signature string: ExperimentLock's Signature, and what a Go
\* map[string]string yields for a key it does not hold.
Empty == 0

\* SHA512 of a set of datafiles: an injective digest, never the empty string.
SHA512(c) == c + 1

Sigs == {Empty} \cup {SHA512(c) : c \in Content}

\* A step without LOCKFILE.
NoLock == [locked |-> FALSE]

\* A deserialized LOCKFILE: the step's signature and its dependency signatures.
LockRecord(own, deps) == [locked |-> TRUE, own |-> own, deps |-> deps]

VARIABLES
    lockfile,      \* lockfile[s]: the LOCKFILE of step s on disk, or NoLock
    art,           \* art[s]: the current datafiles of step s
    pc,            \* position of the run in the protocol
    target,        \* the current step
    previous,      \* the old LOCKFILE kept by "Delete current LOCKFILE"
    overwritten,   \* the run has overwritten files of the current step
    worked,        \* the step has been run (the work was invoked)
    outcome,       \* how the step ended: "none", "ok", "failed"
    reported,      \* steps named by the run's error report
    pre,           \* history: LOCKFILE of the current step when the run began
    seenLive,      \* history: live dependency signatures when verifying
    depsAtInvalidate, \* history: live dependency signatures at the delete
    interrupted,   \* history: steps one of whose runs was interrupted
    runs,          \* number of runs started
    changes        \* number of out-of-band datafile changes

vars == <<lockfile, art, pc, target, previous, overwritten, worked, outcome,
          reported, pre, seenLive, depsAtInvalidate, interrupted, runs, changes>>

\* State of the repository manager of bfrepo.go and of its surroundings.
VARIABLES
    cwd,           \* working directory of the process
    headRef,       \* short name of HEAD: a branch, or "HEAD" when detached
    headSha,       \* commit hash of HEAD
    originURL,     \* remote.origin.url of the repository, a string, as its runes
    handles,       \* handles returned by Checkout and not yet disposed
    last           \* the last call of the manager and what it did

repoVars == <<cwd, headRef, headSha, originURL, handles, last>>

\* State of the Signature Computer: its two most recent computations.
VARIABLES
    sigPrev,       \* the computation before the last one
    sigLast        \* the last computation: the files it read and its result

sigVars == <<sigPrev, sigLast>>

\* State of the Lock Store of one stage: the files of its directory and the
\* position of save.
VARIABLES
    lockPath,      \* the file at the LOCKFILE path, or NoFile
    tmpPath,       \* the file at the temporary path, or NoFile
    storePc,       \* position of save: idle, created, written, flushed
    storeArg,      \* the record save was called with
    storeOld,      \* the file at the LOCKFILE path when save was called
    saved          \* the record of the last save that returned, until deleted

storeVars == <<lockPath, tmpPath, storePc, storeArg, storeOld, saved>>

\* The variables that are not part of the locking protocol.
others == <<repoVars, sigVars, storeVars>>

\* No file at a path.
NoFile == [present |-> FALSE]

\* No computation of a signature has been made.
NoComputation == [done |-> FALSE]

\* The Signature Computer is not in use.
SigIdle ==
    /\ sigPrev = NoComputation
    /\ sigLast = NoComputation

\* The Lock Store is not in use.
StoreIdle ==
    /\ lockPath = NoFile
    /\ tmpPath = NoFile
    /\ storePc = "idle"
    /\ storeArg = NoLock
    /\ storeOld = NoFile
    /\ saved = NoLock

\* No handle.
NoHandle == [headRef |-> "", headSha |-> "", wasRef |-> "", wasSha |-> "",
             rev |-> ""]

\* No call of the repository manager has been made.
NoCall == [op |-> "none", chdirOk |-> TRUE, err |-> "nil", cmds |-> <<>>,
           handle |-> NoHandle, disposed |-> NoHandle,
           before |-> "/", after |-> "/"]

\* The repository manager is not in use.
RepoIdle ==
    /\ cwd = "/"
    /\ headRef = "master"
    /\ headSha = "c1"
    /\ originURL = <<>>
    /\ handles = {}
    /\ last = NoCall

\* ------------------------------------------------------ the lock Manager
\* Manager.IsLocked: the LOCKFILE of the step is present.
IsLocked(s) == lockfile[s].locked

\* Manager.Signature computed from the datafiles (lock.go 30, 34, 38, 42).
Signature(s) == IF s = "experiment" THEN Empty ELSE SHA512(art[s])

\* Manager.DependencySignatures computed from the dependencies' datafiles
\* (lock.go 29, 33, 37, 41); a key that is not a dependency reads as "".
DependencySignatures(s) ==
    [d \in Stages |-> IF d \in Deps[s] THEN Signature(d) ELSE Empty]

\* Variant of LockedSignature that recomputes the signature from the datafiles.
LockedSignature_Live(d) == Signature(d)

\* The signature contained in the LOCKFILE of step d.
LockedSignature(d) == IF lockfile[d].locked THEN lockfile[d].own ELSE Empty

\* The signature the LOCKFILE of step s records for its dependency d.
RecordedDependency(s, d) ==
    IF lockfile[s].locked THEN lockfile[s].deps[d] ELSE Empty

NoDeps == [d \in Stages |-> Empty]

\* ------------------------------------------------------------------ Init
\* LOCKFILEs a step can start with: none, or one written for the initial
\* datafiles, in which a dependency key may be absent.
InitLocks(s) ==
    {NoLock} \cup
    {LockRecord(IF s = "experiment" THEN Empty ELSE SHA512(0), deps) :
        deps \in {f \in [Stages -> {Empty, SHA512(0)}] :
                    \A d \in Stages \ Deps[s] : f[d] = Empty}}

Init ==
    /\ art = [s \in Stages |-> 0]
    /\ lockfile \in {f \in [Stages -> UNION {InitLocks(s) : s \in Stages}] :
                        \A s \in Stages : f[s] \in InitLocks(s)}
    /\ pc = "IDLE"
    /\ target = "corpus"
    /\ previous = NoLock
    /\ overwritten = FALSE
    /\ worked = FALSE
    /\ outcome = "none"
    /\ reported = {}
    /\ pre = NoLock
    /\ seenLive = NoDeps
    /\ depsAtInvalidate = NoDeps
    /\ interrupted = {}
    /\ runs = 0
    /\ changes = 0
    /\ RepoIdle
    /\ SigIdle
    /\ StoreIdle

\* Positions in which no run is in progress.
Terminal == {"IDLE", "NOT_CACHED", "STALE", "COMMITTED", "FAILED", "INTERRUPTED"}

\* --------------------------------------------------------------- actions
\* A run of the protocol for step s begins.
Start(s) ==
    /\ pc \in Terminal
    /\ runs < MaxRuns
    /\ pc' = "CHECKING"
    /\ target' = s
    /\ previous' = NoLock
    /\ overwritten' = FALSE
    /\ worked' = FALSE
    /\ outcome' = "none"
    /\ reported' = {}
    /\ pre' = lockfile[s]
    /\ seenLive' = NoDeps
    /\ depsAtInvalidate' = NoDeps
    /\ runs' = runs + 1
    /\ UNCHANGED <<lockfile, art, interrupted, changes>>
    /\ UNCHANGED others

\* Variant of Missing that looks only at the dependencies.
Missing_DepsOnly(s) == {x \in Deps[s] : ~IsLocked(x)}

\* Variant of Missing that looks only at the current step.
Missing_SelfOnly(s) == {x \in {s} : ~IsLocked(x)}

\* lock.go 10-12: the steps among the dependencies and the current step
\* that have no LOCKFILE.
Missing(s) == {x \in Deps[s] \cup {s} : ~IsLocked(x)}

\* Variant of CheckPresent that reports the missing LOCKFILEs but goes on.
CheckPresent_GoOn ==
    /\ pc = "CHECKING"
    /\ pc' = "PRESENT"
    /\ reported' = Missing(target)
    /\ UNCHANGED <<lockfile, art, target, previous, overwritten, worked,
                   outcome, pre, seenLive, depsAtInvalidate, interrupted,
                   runs, changes>>
    /\ UNCHANGED others

\* lock.go 10-12: check that LOCKFILE is present for the dependencies and the
\* current step; if not, report that the data is not cached and error out.
CheckPresent ==
    /\ pc = "CHECKING"
    /\ IF Missing(target) # {}
         THEN /\ pc' = "NOT_CACHED"
              /\ reported' = Missing(target)
         ELSE /\ pc' = "PRESENT"
              /\ UNCHANGED reported
    /\ UNCHANGED <<lockfile, art, target, previous, overwritten, worked,
                   outcome, pre, seenLive, depsAtInvalidate, interrupted,
                   runs, changes>>
    /\ UNCHANGED others

\* Variant of Mismatched that compares the current step's LOCKFILE with itself.
Mismatched_Self(s) ==
    {d \in Deps[s] : RecordedDependency(s, d) # RecordedDependency(s, d)}

\* Variant of Mismatched that compares with the dependencies' datafiles.
Mismatched_Live(s) ==
    {d \in Deps[s] : RecordedDependency(s, d) # Signature(d)}

\* lock.go 19-20: the dependencies whose signature in the current step's
\* LOCKFILE is not the signature contained in the dependency's LOCKFILE.
Mismatched(s) ==
    {d \in Deps[s] : RecordedDependency(s, d) # LockedSignature(d)}

\* Variant of VerifySignatures that deletes the LOCKFILE it finds stale.
VerifySignatures_DropStale ==
    /\ pc = "PRESENT"
    /\ seenLive' = DependencySignatures(target)
    /\ IF Mismatched(target) # {}
         THEN /\ pc' = "STALE"
              /\ reported' = Mismatched(target)
              /\ lockfile' = [lockfile EXCEPT ![target] = NoLock]
         ELSE /\ pc' = "MATCHED"
              /\ UNCHANGED <<reported, lockfile>>
    /\ UNCHANGED <<art, target, previous, overwritten, worked,
                   outcome, pre, depsAtInvalidate, interrupted, runs, changes>>
    /\ UNCHANGED others

\* lock.go 13-22: deserialize the LOCKFILEs and compare; proceed when they are
\* the same, else report that they don't match and error out.
VerifySignatures ==
    /\ pc = "PRESENT"
    /\ seenLive' = DependencySignatures(target)
    /\ IF Mismatched(target) # {}
         THEN /\ pc' = "STALE"
              /\ reported' = Mismatched(target)
         ELSE /\ pc' = "MATCHED"
              /\ UNCHANGED reported
    /\ UNCHANGED <<lockfile, art, target, previous, overwritten, worked,
                   outcome, pre, depsAtInvalidate, interrupted, runs, changes>>
    /\ UNCHANGED others

\* Variant of DeleteLock that leaves the LOCKFILE in place.
DeleteLock_Keep ==
    /\ pc = "MATCHED"
    /\ previous' = lockfile[target]
    /\ depsAtInvalidate' = DependencySignatures(target)
    /\ pc' = "INVALIDATED"
    /\ UNCHANGED <<lockfile, art, target, overwritten, worked, outcome,
                   reported, pre, seenLive, interrupted, runs, changes>>
    /\ UNCHANGED others

\* lock.go 23: delete current LOCKFILE (the old one is kept for line 25).
DeleteLock ==
    /\ pc = "MATCHED"
    /\ previous' = lockfile[target]
    /\ lockfile' = [lockfile EXCEPT ![target] = NoLock]
    /\ depsAtInvalidate' = DependencySignatures(target)
    /\ pc' = "INVALIDATED"
    /\ UNCHANGED <<art, target, overwritten, worked, outcome, reported, pre,
                   seenLive, interrupted, runs, changes>>
    /\ UNCHANGED others

\* Variant of BeginWork that is taken before the LOCKFILE is deleted.
BeginWork_Early ==
    /\ pc \in {"MATCHED", "INVALIDATED"}
    /\ worked' = TRUE
    /\ pc' = "RUNNING"
    /\ UNCHANGED <<lockfile, art, target, previous, overwritten, outcome,
                   reported, pre, seenLive, depsAtInvalidate, interrupted,
                   runs, changes>>
    /\ UNCHANGED others

\* lock.go 24: run the step.
BeginWork ==
    /\ pc = "INVALIDATED"
    /\ worked' = TRUE
    /\ pc' = "RUNNING"
    /\ UNCHANGED <<lockfile, art, target, previous, overwritten, outcome,
                   reported, pre, seenLive, depsAtInvalidate, interrupted,
                   runs, changes>>
    /\ UNCHANGED others

\* lock.go 24-25: the running step overwrites files of the current step.
WorkWrite(c) ==
    /\ pc = "RUNNING"
    /\ art' = [art EXCEPT ![target] = c]
    /\ overwritten' = TRUE
    /\ UNCHANGED <<lockfile, pc, target, previous, worked, outcome, reported,
                   pre, seenLive, depsAtInvalidate, interrupted, runs, changes>>
    /\ UNCHANGED others

\* lock.go 24-25: the step ends; it succeeds or fails.
WorkReturn(o) ==
    /\ pc = "RUNNING"
    /\ outcome' = o
    /\ pc' = "FINISHED"
    /\ UNCHANGED <<lockfile, art, target, previous, overwritten, worked,
                   reported, pre, seenLive, depsAtInvalidate, interrupted,
                   runs, changes>>
    /\ UNCHANGED others

\* Variant of Rollback that never re-writes the old LOCKFILE.
Rollback_NoRewrite ==
    /\ pc = "FINISHED"
    /\ outcome = "failed"
    /\ pc' = "FAILED"
    /\ UNCHANGED <<lockfile, art, target, previous, overwritten, worked,
                   outcome, reported, pre, seenLive, depsAtInvalidate,
                   interrupted, runs, changes>>
    /\ UNCHANGED others

\* Variant of Rollback that treats a failed run like one that succeeded: it
\* re-generates the LOCKFILE from the datafiles the failed step left behind.
Rollback_Regenerate ==
    /\ pc = "FINISHED"
    /\ outcome = "failed"
    /\ lockfile' = [lockfile EXCEPT ![target] =
                      LockRecord(Signature(target),
                                 DependencySignatures(target))]
    /\ pc' = "FAILED"
    /\ UNCHANGED <<art, target, previous, overwritten, worked, outcome,
                   reported, pre, seenLive, depsAtInvalidate, interrupted,
                   runs, changes>>
    /\ UNCHANGED others

\* lock.go 24-25: if the current run fails and we haven't overwritten any
\* files, re-write the old LOCKFILE.
Rollback ==
    /\ pc = "FINISHED"
    /\ outcome = "failed"
    /\ lockfile' = IF ~overwritten
                     THEN [lockfile EXCEPT ![target] = previous]
                     ELSE lockfile
    /\ pc' = "FAILED"
    /\ UNCHANGED <<art, target, previous, overwritten, worked, outcome,
                   reported, pre, seenLive, depsAtInvalidate, interrupted,
                   runs, changes>>
    /\ UNCHANGED others

\* Variant of GenerateLock that keeps the old LOCKFILE's dependency signatures.
GenerateLock_OldDeps(s) ==
    LockRecord(Signature(s), IF previous.locked THEN previous.deps ELSE NoDeps)

\* lock.go 25-26: the LOCKFILE re-generated from the datafiles as they are.
GenerateLock(s) == LockRecord(Signature(s), DependencySignatures(s))

\* Variant of Regenerate that also re-generates the dependencies' LOCKFILEs.
Regenerate_WithDeps ==
    /\ pc = "FINISHED"
    /\ outcome = "ok"
    /\ lockfile' = [s \in Stages |->
                      IF s \in Deps[target] \cup {target}
                        THEN GenerateLock(s) ELSE lockfile[s]]
    /\ pc' = "COMMITTED"
    /\ UNCHANGED <<art, target, previous, overwritten, worked, outcome,
                   reported, pre, seenLive, depsAtInvalidate, interrupted,
                   runs, changes>>
    /\ UNCHANGED others

\* lock.go 25-26: if we succeed, re-generate LOCKFILE and write to disk.
Regenerate ==
    /\ pc = "FINISHED"
    /\ outcome = "ok"
    /\ lockfile' = [lockfile EXCEPT ![target] = GenerateLock(target)]
    /\ pc' = "COMMITTED"
    /\ UNCHANGED <<art, target, previous, overwritten, worked, outcome,
                   reported, pre, seenLive, depsAtInvalidate, interrupted,
                   runs, changes>>
    /\ UNCHANGED others

\* The run is interrupted while the step runs: nothing more is done.
Interrupt ==
    /\ pc = "RUNNING"
    /\ pc' = "INTERRUPTED"
    /\ interrupted' = interrupted \cup {target}
    /\ UNCHANGED <<lockfile, art, target, previous, overwritten, worked,
                   outcome, reported, pre, seenLive, depsAtInvalidate,
                   runs, changes>>
    /\ UNCHANGED others

\* The datafiles of a step change outside any run of the protocol.
ArtifactsChange(s, c) ==
    /\ changes < MaxChanges
    /\ c # art[s]
    /\ art' = [art EXCEPT ![s] = c]
    /\ changes' = changes + 1
    /\ UNCHANGED <<lockfile, pc, target, previous, overwritten, worked,
                   outcome, reported, pre, seenLive, depsAtInvalidate,
                   interrupted, runs>>
    /\ UNCHANGED others

Next ==
    \/ \E s \in Stages : Start(s)
    \/ CheckPresent
    \/ VerifySignatures
    \/ DeleteLock
    \/ BeginWork
    \/ \E c \in Content : WorkWrite(c)
    \/ \E o \in {"ok", "failed"} : WorkReturn(o)
    \/ Rollback
    \/ Regenerate
    \/ Interrupt
    \/ \E s \in Stages, c \in Content : ArtifactsChange(s, c)

Spec == Init /\ [][Next]_vars

TypeOK ==
    /\ pc \in Terminal \cup {"CHECKING", "PRESENT", "MATCHED", "INVALIDATED",
                             "RUNNING", "FINISHED"}
    /\ target \in Stages
    /\ art \in [Stages -> Content]
    /\ \A s \in Stages : lockfile[s] = NoLock \/
          (lockfile[s].own \in Sigs /\ lockfile[s].deps \in [Stages -> Sigs])

\* =================================================== bfrepo/bfrepo.go
\* ------------------------------------------------------------- bounds
MaxHandles == 1     \* handles of Checkout that may be outstanding at once

\* Strings the code compares are sequences of characters.
UpperCase ==
    <<"A", "B", "C", "D", "E", "F", "G", "H", "I", "J", "K", "L", "M", "N",
      "O", "P", "Q", "R", "S", "T", "U", "V", "W", "X", "Y", "Z">>

LowerCase ==
    <<"a", "b", "c", "d", "e", "f", "g", "h", "i", "j", "k", "l", "m", "n",
      "o", "p", "q", "r", "s", "t", "u", "v", "w", "x", "y", "z">>

\* A string is the sequence of its runes, each the number of its code point;
\* a byte that is not part of a valid UTF-8 sequence is written as the
\* negative of its value.
MaxASCII == 127
RuneError == 65533

\* The punctuation of the remotes and its code points.
Marks == <<"-", ".", "/", ":", "@">>
MarkRunes == <<45, 46, 47, 58, 64>>

\* Characters outside ASCII as they are written in this module.
Written ==
    {<<"U+00C0", 192>>, <<"U+00C9", 201>>, <<"U+00E9", 233>>,
     <<"U+0130", 304>>, <<"U+0391", 913>>, <<"U+212A", 8490>>,
     <<"0xFF", -255>>}

\* The rune a written character stands for.
Rune(ch) ==
    IF \E i \in DOMAIN UpperCase : UpperCase[i] = ch
      THEN 64 + (CHOOSE i \in DOMAIN UpperCase : UpperCase[i] = ch)
    ELSE IF \E i \in DOMAIN LowerCase : LowerCase[i] = ch
      THEN 96 + (CHOOSE i \in DOMAIN LowerCase : LowerCase[i] = ch)
    ELSE IF \E i \in DOMAIN Marks : Marks[i] = ch
      THEN MarkRunes[CHOOSE i \in DOMAIN Marks : Marks[i] = ch]
    ELSE (CHOOSE w \in Written : w[1] = ch)[2]

Runes(written) == [i \in DOMAIN written |-> Rune(written[i])]

\* The lower-case mappings of the capital letters outside ASCII (Unicode
\* 14.0, one code point to one code point): <<lo, hi, delta, step>> says that
\* every step-th code point from lo to hi has its small letter delta further.
LowerRanges ==
    {<<192, 214, 32, 1>>, <<216, 222, 32, 1>>, <<256, 302, 1, 2>>,
     <<304, 304, -199, 1>>, <<306, 310, 1, 2>>, <<313, 327, 1, 2>>,
     <<330, 374, 1, 2>>, <<376, 376, -121, 1>>, <<377, 381, 1, 2>>,
     <<385, 385, 210, 1>>, <<386, 388, 1, 2>>, <<390, 390, 206, 1>>,
     <<391, 391, 1, 1>>, <<393, 394, 205, 1>>, <<395, 395, 1, 1>>,
     <<398, 398, 79, 1>>, <<399, 399, 202, 1>>, <<400, 400, 203, 1>>,
     <<401, 401, 1, 1>>, <<403, 403, 205, 1>>, <<404, 404, 207, 1>>,
     <<406, 406, 211, 1>>, <<407, 407, 209, 1>>, <<408, 408, 1, 1>>,
     <<412, 412, 211, 1>>, <<413, 413, 213, 1>>, <<415, 415, 214, 1>>,
     <<416, 420, 1, 2>>, <<422, 422, 218, 1>>, <<423, 423, 1, 1>>,
     <<425, 425, 218, 1>>, <<428, 428, 1, 1>>, <<430, 430, 218, 1>>,
     <<431, 431, 1, 1>>, <<433, 434, 217, 1>>, <<435, 437, 1, 2>>,
     <<439, 439, 219, 1>>, <<440, 440, 1, 1>>, <<444, 444, 1, 1>>,
     <<452, 452, 2, 1>>, <<453, 453, 1, 1>>, <<455, 455, 2, 1>>,
     <<456, 456, 1, 1>>, <<458, 458, 2, 1>>, <<459, 475, 1, 2>>,
     <<478, 494, 1, 2>>, <<497, 497, 2, 1>>, <<498, 500, 1, 2>>,
     <<502, 502, -97, 1>>, <<503, 503, -56, 1>>, <<504, 542, 1, 2>>,
     <<544, 544, -130, 1>>, <<546, 562, 1, 2>>, <<570, 570, 10795, 1>>,
     <<571, 571, 1, 1>>, <<573, 573, -163, 1>>, <<574, 574, 10792, 1>>,
     <<577, 577, 1, 1>>, <<579, 579, -195, 1>>, <<580, 580, 69, 1>>,
     <<581, 581, 71, 1>>, <<582, 590, 1, 2>>, <<880, 882, 1, 2>>,
     <<886, 886, 1, 1>>, <<895, 895, 116, 1>>, <<902, 902, 38, 1>>,
     <<904, 906, 37, 1>>, <<908, 908, 64, 1>>, <<910, 911, 63, 1>>,
     <<913, 929, 32, 1>>, <<931, 939, 32, 1>>, <<975, 975, 8, 1>>,
     <<984, 1006, 1, 2>>, <<1012, 1012, -60, 1>>, <<1015, 1015, 1, 1>>,
     <<1017, 1017, -7, 1>>, <<1018, 1018, 1, 1>>, <<1021, 1023, -130, 1>>,
     <<1024, 1039, 80, 1>>, <<1040, 1071, 32, 1>>, <<1120, 1152, 1, 2>>,
     <<1162, 1214, 1, 2>>, <<1216, 1216, 15, 1>>, <<1217, 1229, 1, 2>>,
     <<1232, 1326, 1, 2>>, <<1329, 1366, 48, 1>>, <<4256, 4293, 7264, 1>>,
     <<4295, 4295, 7264, 1>>, <<4301, 4301, 7264, 1>>,
     <<5024, 5103, 38864, 1>>, <<5104, 5109, 8, 1>>,
     <<7312, 7354, -3008, 1>>, <<7357, 7359, -3008, 1>>,
     <<7680, 7828, 1, 2>>, <<7838, 7838, -7615, 1>>, <<7840, 7934, 1, 2>>,
     <<7944, 7951, -8, 1>>, <<7960, 7965, -8, 1>>, <<7976, 7983, -8, 1>>,
     <<7992, 7999, -8, 1>>, <<8008, 8013, -8, 1>>, <<8025, 8031, -8, 2>>,
     <<8040, 8047, -8, 1>>, <<8072, 8079, -8, 1>>, <<8088, 8095, -8, 1>>,
     <<8104, 8111, -8, 1>>, <<8120, 8121, -8, 1>>, <<8122, 8123, -74, 1>>,
     <<8124, 8124, -9, 1>>, <<8136, 8139, -86, 1>>, <<8140, 8140, -9, 1>>,
     <<8152, 8153, -8, 1>>, <<8154, 8155, -100, 1>>, <<8168, 8169, -8, 1>>,
     <<8170, 8171, -112, 1>>, <<8172, 8172, -7, 1>>, <<8184, 8185, -128, 1>>,
     <<8186, 8187, -126, 1>>, <<8188, 8188, -9, 1>>,
     <<8486, 8486, -7517, 1>>, <<8490, 8490, -8383, 1>>,
     <<8491, 8491, -8262, 1>>, <<8498, 8498, 28, 1>>, <<8544, 8559, 16, 1>>,
     <<8579, 8579, 1, 1>>, <<9398, 9423, 26, 1>>, <<11264, 11311, 48, 1>>,
     <<11360, 11360, 1, 1>>, <<11362, 11362, -10743, 1>>,
     <<11363, 11363, -3814, 1>>, <<11364, 11364, -10727, 1>>,
     <<11367, 11371, 1, 2>>, <<11373, 11373, -10780, 1>>,
     <<11374, 11374, -10749, 1>>, <<11375, 11375, -10783, 1>>,
     <<11376, 11376, -10782, 1>>, <<11378, 11378, 1, 1>>,
     <<11381, 11381, 1, 1>>, <<11390, 11391, -10815, 1>>,
     <<11392, 11490, 1, 2>>, <<11499, 11501, 1, 2>>, <<11506, 11506, 1, 1>>,
     <<42560, 42604, 1, 2>>, <<42624, 42650, 1, 2>>, <<42786, 42798, 1, 2>>,
     <<42802, 42862, 1, 2>>, <<42873, 42875, 1, 2>>,
     <<42877, 42877, -35332, 1>>, <<42878, 42886, 1, 2>>,
     <<42891, 42891, 1, 1>>, <<42893, 42893, -42280, 1>>,
     <<42896, 42898, 1, 2>>, <<42902, 42920, 1, 2>>,
     <<42922, 42922, -42308, 1>>, <<42923, 42923, -42319, 1>>,
     <<42924, 42924, -42315, 1>>, <<42925, 42925, -42305, 1>>,
     <<42926, 42926, -42308, 1>>, <<42928, 42928, -42258, 1>>,
     <<42929, 42929, -42282, 1>>, <<42930, 42930, -42261, 1>>,
     <<42931, 42931, 928, 1>>, <<42932, 42946, 1, 2>>,
     <<42948, 42948, -48, 1>>, <<42949, 42949, -42307, 1>>,
     <<42950, 42950, -35384, 1>>, <<42951, 42953, 1, 2>>,
     <<42960, 42960, 1, 1>>, <<42966, 42968, 1, 2>>, <<42997, 42997, 1, 1>>,
     <<65313, 65338, 32, 1>>, <<66560, 66599, 40, 1>>,
     <<66736, 66771, 40, 1>>, <<66928, 66938, 39, 1>>,
     <<66940, 66954, 39, 1>>, <<66956, 66962, 39, 1>>,
     <<66964, 66965, 39, 1>>, <<68736, 68786, 64, 1>>,
     <<71840, 71871, 32, 1>>, <<93760, 93791, 32, 1>>,
     <<125184, 125217, 34, 1>>}

\* unicode.ToLower of one rune: the ASCII capitals, then the table. An invalid
\* byte comes out of strings.ToLower as the replacement character.
LowerChar(c) ==
    IF c < 0 THEN RuneError
    ELSE IF c <= MaxASCII
      THEN (IF Rune("A") <= c /\ c <= Rune("Z")
              THEN c + (Rune("a") - Rune("A")) ELSE c)
    ELSE IF \E g \in LowerRanges :
               g[1] <= c /\ c <= g[2] /\ (c - g[1]) % g[4] = 0
      THEN c + (CHOOSE g \in LowerRanges :
                    g[1] <= c /\ c <= g[2] /\ (c - g[1]) % g[4] = 0)[3]
    ELSE c

\* bfrepo.go 77: strings.ToLower.
ToLower(str) == [i \in DOMAIN str |-> LowerChar(str[i])]

\* bfrepo.go 13.
bitfunnelHTTPSRemote ==
    Runes(<<"h", "t", "t", "p", "s", ":", "/", "/", "g", "i", "t", "h", "u", "b",
            ".", "c", "o", "m", "/", "b", "i", "t", "f", "u", "n", "n", "e", "l",
            "/", "b", "i", "t", "f", "u", "n", "n", "e", "l">>)

\* bfrepo.go 14.
bitfunnelSSHRemote ==
    Runes(<<"g", "i", "t", "@", "g", "i", "t", "h", "u", "b", ".", "c", "o", "m",
            ":", "b", "i", "t", "f", "u", "n", "n", "e", "l", "/", "b", "i", "t",
            "f", "u", "n", "n", "e", "l", ".", "g", "i", "t">>)

\* Values remote.origin.url takes: the canonical remotes as GitHub shows them
\* and in lower case, and remotes that are not the canonical repository.
MixedHTTPSRemote ==
    Runes(<<"h", "t", "t", "p", "s", ":", "/", "/", "g", "i", "t", "h", "u", "b",
            ".", "c", "o", "m", "/", "B", "i", "t", "F", "u", "n", "n", "e", "l",
            "/", "B", "i", "t", "F", "u", "n", "n", "e", "l">>)

MixedSSHRemote ==
    Runes(<<"g", "i", "t", "@", "g", "i", "t", "h", "u", "b", ".", "c", "o", "m",
            ":", "B", "i", "t", "F", "u", "n", "n", "e", "l", "/", "B", "i", "t",
            "F", "u", "n", "n", "e", "l", ".", "g", "i", "t">>)

DotGitHTTPSRemote ==
    Runes(<<"h", "t", "t", "p", "s", ":", "/", "/", "g", "i", "t", "h", "u", "b",
            ".", "c", "o", "m", "/", "b", "i", "t", "f", "u", "n", "n", "e", "l",
            "/", "b", "i", "t", "f", "u", "n", "n", "e", "l", ".", "g", "i", "t">>)

ForkRemote ==
    Runes(<<"h", "t", "t", "p", "s", ":", "/", "/", "g", "i", "t", "h", "u", "b",
            ".", "c", "o", "m", "/", "s", "o", "m", "e", "o", "n", "e", "/", "B",
            "i", "t", "F", "u", "n", "n", "e", "l">>)

\* The HTTPS remote with capital I with dot above in the host name.
DottedIRemote ==
    Runes(<<"h", "t", "t", "p", "s", ":", "/", "/", "g", "U+0130", "t", "h", "u",
            "b", ".", "c", "o", "m", "/", "b", "i", "t", "f", "u", "n", "n", "e",
            "l", "/", "b", "i", "t", "f", "u", "n", "n", "e", "l">>)

\* The HTTPS remote with capital E with acute in the owner's name.
AccentRemote ==
    Runes(<<"h", "t", "t", "p", "s", ":", "/", "/", "g", "i", "t", "h", "u", "b",
            ".", "c", "o", "m", "/", "b", "i", "t", "f", "u", "n", "n", "U+00C9",
            "l", "/", "b", "i", "t", "f", "u", "n", "n", "e", "l">>)

OriginURLs ==
    {bitfunnelHTTPSRemote, bitfunnelSSHRemote, MixedHTTPSRemote,
     MixedSSHRemote, DotGitHTTPSRemote, ForkRemote, DottedIRemote,
     AccentRemote}

\* bfrepo.go 44-53 (New): the directories of the repository.
bitFunnelRoot == "/bf"
buildRoot == "/bf/build-make"
bitFunnelExecutable == "/bf/build-make/tools/BitFunnel/src/BitFunnel"

\* Directories the process may be in when a call is made.
Dirs == {"/home", bitFunnelRoot, buildRoot}

\* The commits and branches of the repository, and the tip of each branch.
Shas == {"c1", "c2"}
Branches == {"master"}
Tip == [b \in Branches |-> "c1"]
Revisions == Shas \cup Branches

\* A command run by shell.RunCommand or shell.CommandOutput, with the
\* directory it ran in.
RunIn(dir, argv) == [dir |-> dir, argv |-> argv]

\* `git checkout rev`: HEAD is on the branch, or detached at the commit.
CheckedOutRef(rev) == IF rev \in Branches THEN rev ELSE "HEAD"
CheckedOutSha(rev) == IF rev \in Branches THEN Tip[rev] ELSE rev

\* fs.ScopedChdir: the handle keeps the directory the process was in;
\* Dispose goes back to it.
ScopedChdir(dir) == [dir |-> dir, prev |-> cwd]
Dispose(chdirHandle) == chdirHandle.prev

\* The handles Checkout can return: what resetHead has captured, and for the
\* record what HEAD was and which revision was checked out.
HandleRecords ==
    [headRef : Branches \cup {"HEAD"}, headSha : Shas,
     wasRef : Branches \cup {"HEAD"}, wasSha : Shas, rev : Revisions]

\* The locking protocol is not in use.
LockIdle ==
    /\ lockfile = [s \in Stages |-> NoLock]
    /\ art = [s \in Stages |-> 0]
    /\ pc = "IDLE"
    /\ target = "corpus"
    /\ previous = NoLock
    /\ overwritten = FALSE
    /\ worked = FALSE
    /\ outcome = "none"
    /\ reported = {}
    /\ pre = NoLock
    /\ seenLive = NoDeps
    /\ depsAtInvalidate = NoDeps
    /\ interrupted = {}
    /\ runs = 0
    /\ changes = 0

\* There is a repository at bitFunnelRoot: it has a remote origin.
Cloned == originURL # <<>>

\* Either nothing has been cloned to bitFunnelRoot yet, or a repository is
\* there with some origin and some HEAD.
RepoInit ==
    /\ cwd = "/home"
    /\ \/ /\ originURL = <<>>
          /\ headRef = ""
          /\ headSha = ""
       \/ /\ originURL \in OriginURLs
          /\ \E rev \in Revisions :
                /\ headRef = CheckedOutRef(rev)
                /\ headSha = CheckedOutSha(rev)
    /\ handles = {}
    /\ last = NoCall
    /\ LockIdle
    /\ SigIdle
    /\ StoreIdle

\* What a call leaves behind: the working directory is the one the disposed
\* chdir handle restores when the chdir succeeded; the call record keeps what
\* the call returned and ran, and the working directory before and after it.
Returns(op, chdirHandle, chdirOk, err, cmds, handle, disposed) ==
    /\ cwd' = IF chdirOk THEN Dispose(chdirHandle) ELSE cwd
    /\ last' = [op |-> op, chdirOk |-> chdirOk, err |-> err, cmds |-> cmds,
                handle |-> handle, disposed |-> disposed,
                before |-> cwd, after |-> cwd']

\* bfrepo.go 79-80: the origin is neither of the canonical remotes.
NotCanonical_Inverted(lowerOriginURL) ==
    lowerOriginURL = bitfunnelSSHRemote \/ lowerOriginURL = bitfunnelHTTPSRemote

NotCanonical(lowerOriginURL) ==
    lowerOriginURL # bitfunnelSSHRemote /\ lowerOriginURL # bitfunnelHTTPSRemote

GitClone == <<"git", "clone", bitfunnelHTTPSRemote, bitFunnelRoot>>

\* bfrepo.go 57-61: Clone.  It runs `git clone` where the process is; git
\* refuses to clone into a directory that holds a repository, and a clone
\* that succeeds leaves a repository whose origin is the HTTPS remote and
\* whose HEAD is on the default branch.
Clone(cloneOk) ==
    /\ cloneOk => ~Cloned
    /\ last' = [op |-> "Clone", chdirOk |-> TRUE,
                err |-> IF cloneOk THEN "nil" ELSE "cloneErr",
                cmds |-> <<RunIn(cwd, GitClone)>>,
                handle |-> NoHandle, disposed |-> NoHandle,
                before |-> cwd, after |-> cwd]
    /\ IF cloneOk
         THEN /\ originURL' = bitfunnelHTTPSRemote
              /\ headRef' = "master"
              /\ headSha' = Tip["master"]
         ELSE UNCHANGED <<originURL, headRef, headSha>>
    /\ UNCHANGED <<cwd, handles>>
    /\ UNCHANGED <<vars, sigVars, storeVars>>

GitConfigOrigin == <<"git", "config", "--get", "remote.origin.url">>
GitFetch == <<"git", "fetch", "origin">>

\* bfrepo.go 64-91: Fetch.  chdirOk, urlOk and pullOk say whether ScopedChdir,
\* the reading of the origin URL and `git fetch` succeed; there is no origin
\* URL to read where nothing has been cloned.
Fetch(chdirOk, urlOk, pullOk) ==
    LET chdirHandle == ScopedChdir(bitFunnelRoot)
        readURL == <<RunIn(chdirHandle.dir, GitConfigOrigin)>>
        lowerOriginURL == ToLower(originURL)
    IN  /\ urlOk => Cloned
        /\ IF ~chdirOk
             THEN Returns("Fetch", chdirHandle, FALSE, "chdirErr", <<>>,
                          NoHandle, NoHandle)
             ELSE IF ~urlOk
               THEN Returns("Fetch", chdirHandle, TRUE, "originURLErr",
                            readURL, NoHandle, NoHandle)
               ELSE IF NotCanonical(lowerOriginURL)
                 THEN Returns("Fetch", chdirHandle, TRUE, "notCanonical",
                              readURL, NoHandle, NoHandle)
                 ELSE Returns("Fetch", chdirHandle, TRUE,
                              IF pullOk THEN "nil" ELSE "pullErr",
                              Append(readURL, RunIn(chdirHandle.dir, GitFetch)),
                              NoHandle, NoHandle)
        /\ UNCHANGED <<headRef, headSha, originURL, handles>>
        /\ UNCHANGED <<vars, sigVars, storeVars>>

GitHeadRef == <<"git", "rev-parse", "--abbrev-ref=strict", "HEAD">>
GitHeadSha == <<"git", "rev-parse", "HEAD">>
GitCheckout(rev) == <<"git", "checkout", rev>>

\* bfrepo.go 96-143: Checkout.  The flags say whether ScopedChdir, the two
\* `git rev-parse` and `git checkout` succeed.
Checkout(sha, chdirOk, headRefOk, headShaOk, checkoutOk) ==
    LET chdirHandle == ScopedChdir(bitFunnelRoot)
        c1 == <<RunIn(chdirHandle.dir, GitHeadRef)>>
        c2 == Append(c1, RunIn(chdirHandle.dir, GitHeadSha))
        c3 == Append(c2, RunIn(chdirHandle.dir, GitCheckout(sha)))
        resetHead == [headRef |-> headRef, headSha |-> headSha,
                      wasRef |-> headRef, wasSha |-> headSha, rev |-> sha]
    IN  /\ Cardinality(handles) < MaxHandles
        /\ headRefOk => Cloned
        /\ IF ~chdirOk
             THEN /\ Returns("Checkout", chdirHandle, FALSE, "chdirErr", <<>>,
                             NoHandle, NoHandle)
                  /\ UNCHANGED <<headRef, headSha, handles>>
             ELSE IF ~headRefOk
               THEN /\ Returns("Checkout", chdirHandle, TRUE, "headRefErr", c1,
                               NoHandle, NoHandle)
                    /\ UNCHANGED <<headRef, headSha, handles>>
               ELSE IF ~headShaOk
                 THEN /\ Returns("Checkout", chdirHandle, TRUE, "headShaErr",
                                 c2, NoHandle, NoHandle)
                      /\ UNCHANGED <<headRef, headSha, handles>>
                 ELSE IF ~checkoutOk
                   THEN /\ Returns("Checkout", chdirHandle, TRUE,
                                   "checkoutErr", c3, NoHandle, NoHandle)
                        /\ UNCHANGED <<headRef, headSha, handles>>
                   ELSE /\ Returns("Checkout", chdirHandle, TRUE, "nil", c3,
                                   resetHead, NoHandle)
                        /\ headRef' = CheckedOutRef(sha)
                        /\ headSha' = CheckedOutSha(sha)
                        /\ handles' = handles \cup {resetHead}
        /\ UNCHANGED originURL
        /\ UNCHANGED <<vars, sigVars, storeVars>>

\* Variant of PresentRef with the two cases exchanged.
PresentRef_Swapped(handle) ==
    IF handle.headRef = "HEAD" THEN handle.headRef ELSE handle.headSha

\* bfrepo.go 131-136: the ref resetHead checks out.
PresentRef(handle) ==
    IF handle.headRef = "HEAD" THEN handle.headSha ELSE handle.headRef

\* bfrepo.go 124-140: resetHead, run when the handle of Checkout is disposed.
ResetHead(handle, chdirOk, checkoutOk) ==
    LET chdirHandle == ScopedChdir(bitFunnelRoot)
        presentRef == PresentRef(handle)
        cmds == <<RunIn(chdirHandle.dir, GitCheckout(presentRef))>>
    IN  /\ handle \in handles
        /\ handles' = handles \ {handle}
        /\ IF ~chdirOk
             THEN /\ Returns("ResetHead", chdirHandle, FALSE, "chdirErr", <<>>,
                             NoHandle, handle)
                  /\ UNCHANGED <<headRef, headSha>>
             ELSE IF ~checkoutOk
               THEN /\ Returns("ResetHead", chdirHandle, TRUE, "checkoutErr",
                               cmds, NoHandle, handle)
                    /\ UNCHANGED <<headRef, headSha>>
               ELSE /\ Returns("ResetHead", chdirHandle, TRUE, "nil", cmds,
                               NoHandle, handle)
                    /\ headRef' = (IF presentRef \in Revisions
                                     THEN CheckedOutRef(presentRef) ELSE headRef)
                    /\ headSha' = (IF presentRef \in Revisions
                                     THEN CheckedOutSha(presentRef) ELSE headSha)
        /\ UNCHANGED originURL
        /\ UNCHANGED <<vars, sigVars, storeVars>>

\* bfrepo.go 147-156: ConfigureBuild.
ConfigureBuild(chdirOk, configOk) ==
    LET chdirHandle == ScopedChdir(bitFunnelRoot)
    IN  /\ configOk => Cloned
        /\ IF ~chdirOk
             THEN Returns("ConfigureBuild", chdirHandle, FALSE, "chdirErr",
                          <<>>, NoHandle, NoHandle)
             ELSE Returns("ConfigureBuild", chdirHandle, TRUE,
                          IF configOk THEN "nil" ELSE "configErr",
                          <<RunIn(chdirHandle.dir, <<"sh", "Configure_Make.sh">>)>>,
                          NoHandle, NoHandle)
        /\ UNCHANGED <<headRef, headSha, originURL, handles>>
        /\ UNCHANGED <<vars, sigVars, storeVars>>

\* Variant of Build that returns without disposing the chdir handle.
Build_NoDispose(chdirOk, buildOk) ==
    LET chdirHandle == ScopedChdir(buildRoot)
    IN  /\ buildOk => Cloned
        /\ last' = [op |-> "Build", chdirOk |-> chdirOk,
                    err |-> IF ~chdirOk THEN "chdirErr"
                            ELSE IF buildOk THEN "nil" ELSE "buildErr",
                    cmds |-> IF ~chdirOk THEN <<>>
                             ELSE <<RunIn(chdirHandle.dir, <<"make", "-j4">>)>>,
                    handle |-> NoHandle, disposed |-> NoHandle,
                    before |-> cwd,
                    after |-> IF chdirOk THEN chdirHandle.dir ELSE cwd]
        /\ cwd' = IF chdirOk THEN chdirHandle.dir ELSE cwd
        /\ UNCHANGED <<headRef, headSha, originURL, handles>>
        /\ UNCHANGED <<vars, sigVars, storeVars>>

\* bfrepo.go 159-168: Build.
Build(chdirOk, buildOk) ==
    LET chdirHandle == ScopedChdir(buildRoot)
    IN  /\ buildOk => Cloned
        /\ IF ~chdirOk
             THEN Returns("Build", chdirHandle, FALSE, "chdirErr", <<>>,
                          NoHandle, NoHandle)
             ELSE Returns("Build", chdirHandle, TRUE,
                          IF buildOk THEN "nil" ELSE "buildErr",
                          <<RunIn(chdirHandle.dir, <<"make", "-j4">>)>>,
                          NoHandle, NoHandle)
        /\ UNCHANGED <<headRef, headSha, originURL, handles>>
        /\ UNCHANGED <<vars, sigVars, storeVars>>

\* What a run of the BitFunnel executable leaves as the call record: the
\* command runs where the process is, and no directory is changed.
ToolCall(op, arguments, runOk) ==
    [op |-> op, chdirOk |-> TRUE,
     err |-> IF runOk THEN "nil" ELSE "runErr",
     cmds |-> <<RunIn(cwd, <<bitFunnelExecutable>> \o arguments)>>,
     handle |-> NoHandle, disposed |-> NoHandle,
     before |-> cwd, after |-> cwd]

\* bfrepo.go 171-184: RunFilter, here with one sample argument.  The
\* executable is there to run only where a repository has been cloned.
RunFilter(runOk) ==
    /\ runOk => Cloned
    /\ last' = ToolCall("RunFilter",
                        <<"filter", "configManifestPath", "samplePath",
                          "sampleArg">>, runOk)
    /\ UNCHANGED <<cwd, headRef, headSha, originURL, handles>>
    /\ UNCHANGED <<vars, sigVars, storeVars>>

\* bfrepo.go 187-195: RunStatistics.
RunStatistics(runOk) ==
    /\ runOk => Cloned
    /\ last' = ToolCall("RunStatistics",
                        <<"statistics", "statsManifestPath", "configDir",
                          "-text">>, runOk)
    /\ UNCHANGED <<cwd, headRef, headSha, originURL, handles>>
    /\ UNCHANGED <<vars, sigVars, storeVars>>

\* bfrepo.go 198-203: RunTermTable.
RunTermTable(runOk) ==
    /\ runOk => Cloned
    /\ last' = ToolCall("RunTermTable", <<"termtable", "configDir">>, runOk)
    /\ UNCHANGED <<cwd, headRef, headSha, originURL, handles>>
    /\ UNCHANGED <<vars, sigVars, storeVars>>

\* bfrepo.go 206-213: RunRepl.
RunRepl(runOk) ==
    /\ runOk => Cloned
    /\ last' = ToolCall("RunRepl",
                        <<"repl", "configDir", "-script", "scriptFile">>,
                        runOk)
    /\ UNCHANGED <<cwd, headRef, headSha, originURL, handles>>
    /\ UNCHANGED <<vars, sigVars, storeVars>>

\* The caller moves to another directory between two calls.
ChangeDir(dir) ==
    /\ dir # cwd
    /\ cwd' = dir
    /\ UNCHANGED <<headRef, headSha, originURL, handles, last>>
    /\ UNCHANGED <<vars, sigVars, storeVars>>

RepoNext ==
    \/ \E cloneOk \in BOOLEAN : Clone(cloneOk)
    \/ \E runOk \in BOOLEAN : RunFilter(runOk)
    \/ \E runOk \in BOOLEAN : RunStatistics(runOk)
    \/ \E runOk \in BOOLEAN : RunTermTable(runOk)
    \/ \E runOk \in BOOLEAN : RunRepl(runOk)
    \/ \E chdirOk, urlOk, pullOk \in BOOLEAN : Fetch(chdirOk, urlOk, pullOk)
    \/ \E sha \in Revisions, chdirOk, headRefOk, headShaOk, checkoutOk \in BOOLEAN :
          Checkout(sha, chdirOk, headRefOk, headShaOk, checkoutOk)
    \/ \E handle \in HandleRecords, chdirOk, checkoutOk \in BOOLEAN :
          ResetHead(handle, chdirOk, checkoutOk)
    \/ \E chdirOk, configOk \in BOOLEAN : ConfigureBuild(chdirOk, configOk)
    \/ \E chdirOk, buildOk \in BOOLEAN : Build(chdirOk, buildOk)
    \/ \E dir \in Dirs : ChangeDir(dir)

RepoSpec == RepoInit /\ [][RepoNext]_repoVars

\* ------------------------------------- the Signature Computer (spec 4.1)
MaxFiles == 2       \* datafiles a directory may hold

\* Relative paths of datafiles, numbered in the order of their sort key.
Paths == 1..MaxFiles

\* A directory: at every path a datafile with its content, or no file.
Directories == [Paths -> {NoFile} \cup [present : {TRUE}, content : Content]]

\* The file set of a directory: its datafiles as pairs of path and content.
FileSet(dir) == {<<p, dir[p].content>> : p \in {q \in Paths : dir[q].present}}

\* The orders in which a filesystem may enumerate datafiles.
Orders ==
    UNION {{o \in [1..n -> Paths] :
               \A i, j \in 1..n : i # j => o[i] # o[j]} : n \in 0..MaxFiles}

\* order enumerates exactly the datafiles of dir.
Enumerates(order, dir) ==
    {order[i] : i \in DOMAIN order} = {q \in Paths : dir[q].present}

\* Files are sorted by a stable key, their path, before hashing.
RECURSIVE Insert(_, _)
Insert(p, sorted) ==
    IF sorted = <<>> THEN <<p>>
    ELSE IF p <= Head(sorted) THEN <<p>> \o sorted
    ELSE <<Head(sorted)>> \o Insert(p, Tail(sorted))

RECURSIVE SortByPath(_)
SortByPath(order) ==
    IF order = <<>> THEN <<>>
    ELSE Insert(Head(order), SortByPath(Tail(order)))

\* Each file's contents are hashed individually; the digest goes into the
\* combination together with the file's relative path.
DigestAndPath(dir, p) == (p - 1) * Cardinality(Sigs) + SHA512(dir[p].content)

\* The hash of the concatenation of the per-file digests and paths. The hash
\* is taken to be free of collisions: the concatenation is encoded digit by
\* digit in a base no digest-and-path pair reaches.
RECURSIVE HashConcat(_, _, _)
HashConcat(acc, dir, paths) ==
    IF paths = <<>> THEN acc
    ELSE HashConcat(acc * (MaxFiles * Cardinality(Sigs) + 1)
                       + DigestAndPath(dir, Head(paths)),
                    dir, Tail(paths))

\* compute without the sort: the files are combined as enumerated.
compute_Unsorted(dir, order) == HashConcat(0, dir, order)

\* compute(fileSet) -> Signature.
compute(dir, order) == HashConcat(0, dir, SortByPath(order))

SigInit ==
    /\ SigIdle
    /\ LockIdle
    /\ RepoIdle
    /\ StoreIdle

\* One computation of the signature of a directory, whose datafiles the
\* filesystem enumerates in some order; reordered tells that the computation
\* before read the same files in another order.
Compute(dir, order) ==
    /\ Enumerates(order, dir)
    /\ sigPrev' = IF sigLast.done
                  THEN [done |-> TRUE, files |-> sigLast.files,
                        value |-> sigLast.value]
                  ELSE NoComputation
    /\ sigLast' = [done |-> TRUE, files |-> FileSet(dir), order |-> order,
                   value |-> compute(dir, order),
                   reordered |-> /\ sigLast.done
                                 /\ sigLast.files = FileSet(dir)
                                 /\ sigLast.order # order]
    /\ UNCHANGED <<vars, repoVars, storeVars>>

SigNext == \E dir \in Directories, order \in Orders : Compute(dir, order)

SigSpec == SigInit /\ [][SigNext]_sigVars

\* --------------------------------------------- the Lock Store (spec 4.3)
\* The Lock Records of one stage, the sample: its own signature and the
\* signature of the corpus it was built against.
StoreRecords ==
    {LockRecord(SHA512(c), [NoDeps EXCEPT !["corpus"] = SHA512(k)]) :
        c \in Content, k \in Content}

\* The serialized structure of a record: ownSignature, then
\* dependencySignatures, written one after the other.
Serialize(r) == <<r.own, r.deps>>

\* A file: what a reader sees of it (cached) and what of it has reached the
\* disk (durable) and survives a crash.
NewFile == [present |-> TRUE, cached |-> <<>>, durable |-> <<>>]
WholeFile(r) ==
    [present |-> TRUE, cached |-> Serialize(r), durable |-> Serialize(r)]

\* What is left of a file after a crash.
AfterCrash(file) ==
    IF file.present THEN [file EXCEPT !.cached = file.durable] ELSE file

StoreInit ==
    /\ lockPath \in {NoFile} \cup {WholeFile(r) : r \in StoreRecords}
    /\ tmpPath = NoFile
    /\ storePc = "idle"
    /\ storeArg = NoLock
    /\ storeOld = lockPath
    /\ saved = NoLock
    /\ LockIdle
    /\ RepoIdle
    /\ SigIdle

\* save(stage, record) is called: the temporary path is created empty.
SaveBegin(r) ==
    /\ storePc = "idle"
    /\ storeArg' = r
    /\ storeOld' = lockPath
    /\ tmpPath' = NewFile
    /\ storePc' = "created"
    /\ UNCHANGED <<lockPath, saved>>
    /\ UNCHANGED <<vars, repoVars, sigVars>>

\* save writes the next part of the record to the temporary path.
SaveWrite ==
    /\ storePc = "created"
    /\ LET written ==
              SubSeq(Serialize(storeArg), 1, Len(tmpPath.cached) + 1)
       IN  /\ tmpPath' = [tmpPath EXCEPT !.cached = written]
           /\ storePc' = IF written = Serialize(storeArg)
                         THEN "written" ELSE "created"
    /\ UNCHANGED <<lockPath, storeArg, storeOld, saved>>
    /\ UNCHANGED <<vars, repoVars, sigVars>>

\* The system writes back one more part of the temporary file on its own.
WriteBack ==
    /\ tmpPath.present
    /\ Len(tmpPath.durable) < Len(tmpPath.cached)
    /\ tmpPath' = [tmpPath EXCEPT
                      !.durable =
                          SubSeq(tmpPath.cached, 1, Len(tmpPath.durable) + 1)]
    /\ UNCHANGED <<lockPath, storePc, storeArg, storeOld, saved>>
    /\ UNCHANGED <<vars, repoVars, sigVars>>

\* save without the flush: it goes on to the rename with the temporary file
\* as it is.
SaveFlush_Skip ==
    /\ storePc = "written"
    /\ storePc' = "flushed"
    /\ UNCHANGED <<lockPath, tmpPath, storeArg, storeOld, saved>>
    /\ UNCHANGED <<vars, repoVars, sigVars>>

\* save flushes the temporary file: all of it is durable.
SaveFlush ==
    /\ storePc = "written"
    /\ tmpPath' = [tmpPath EXCEPT !.durable = tmpPath.cached]
    /\ storePc' = "flushed"
    /\ UNCHANGED <<lockPath, storeArg, storeOld, saved>>
    /\ UNCHANGED <<vars, repoVars, sigVars>>

\* save renames the temporary file into place, atomically, and returns.
SaveRename ==
    /\ storePc = "flushed"
    /\ lockPath' = tmpPath
    /\ tmpPath' = NoFile
    /\ storePc' = "idle"
    /\ saved' = storeArg
    /\ UNCHANGED <<storeArg, storeOld>>
    /\ UNCHANGED <<vars, repoVars, sigVars>>

\* delete(stage): the LOCKFILE is removed.
Delete ==
    /\ storePc = "idle"
    /\ lockPath.present
    /\ lockPath' = NoFile
    /\ saved' = NoLock
    /\ UNCHANGED <<tmpPath, storePc, storeArg, storeOld>>
    /\ UNCHANGED <<vars, repoVars, sigVars>>

\* A crash at any step: what had not reached the disk is lost, and save, if it
\* was under way, is abandoned where it was.
Crash ==
    /\ lockPath' = AfterCrash(lockPath)
    /\ tmpPath' = AfterCrash(tmpPath)
    /\ storePc' = "idle"
    /\ UNCHANGED <<storeArg, storeOld, saved>>
    /\ UNCHANGED <<vars, repoVars, sigVars>>

StoreNext ==
    \/ \E r \in StoreRecords : SaveBegin(r)
    \/ SaveWrite
    \/ WriteBack
    \/ SaveFlush
    \/ SaveRename
    \/ Delete
    \/ Crash

StoreSpec == StoreInit /\ [][StoreNext]_storeVars

\* ------------------------------------------------- vocabulary of the claims
\* Every dependency of the current step has a LOCKFILE.  No run writes the
\* LOCKFILE of another step, so this is also its value when the run began.
DepsAllLocked == \A d \in Deps[target] : IsLocked(d)

\* The signature the current step's LOCKFILE recorded for d when the run began.
RecordedAtStart(d) == IF pre.locked THEN pre.deps[d] ELSE Empty

\* Dependencies whose recorded signature is not the one in their own LOCKFILE.
MismatchedAtStart ==
    {d \in Deps[target] : RecordedAtStart(d) # LockedSignature(d)}

\* Positions a run is in once the signatures have been verified.
AfterVerify == {"STALE", "MATCHED", "INVALIDATED", "RUNNING", "FINISHED",
                "COMMITTED", "FAILED", "INTERRUPTED"}

\* ------------------------------------------------------------------- C1
\* C1 as stated: whenever the work of a step that had a LOCKFILE R fails, the
\* run returns with the LOCKFILE present and equal to R, IsLocked unchanged.
C1_RollbackAlways ==
    (pc = "FAILED" /\ pre.locked) =>
        (lockfile[target] = pre /\ IsLocked(target) = pre.locked)

\* C1 (amended): when the work of a step that had a LOCKFILE R fails and the
\* run has not overwritten any files, the run returns with the LOCKFILE present
\* and equal to R (same signature, same dependency signatures), and IsLocked is
\* what it was before the run.
C1_RollbackSymmetry ==
    (pc = "FAILED" /\ pre.locked /\ ~overwritten) =>
        (lockfile[target] = pre /\ IsLocked(target) = pre.locked)

C1_Witness ==
    /\ pc = "FAILED"
    /\ pre.locked
    /\ ~overwritten
    /\ worked
    /\ lockfile[target] = pre

\* ------------------------------------------------------------------- C2
\* C2 as stated: a run of a locked step that has verified its signatures while
\* a recorded dependency signature differed from the dependency's live
\* signature has reported staleness, kept its LOCKFILE and not invoked the
\* work (which dependency the report names is left aside here).
C2_StaleOnLive ==
    (pc \in AfterVerify /\ pre.locked) =>
        \A d \in Deps[target] :
            RecordedAtStart(d) # seenLive[d] =>
                /\ pc = "STALE"
                /\ ~worked
                /\ lockfile[target] = pre

\* C2 (amended): for a locked step whose dependencies are all locked, if the
\* signature recorded for a dependency D (an absent key reads as empty) differs
\* from the signature contained in D's LOCKFILE, the run never gets past the
\* verification: it reports the mismatch naming D, the step's LOCKFILE is
\* neither deleted nor rewritten and the work is never invoked.
C2_StaleDetection ==
    (pc # "IDLE" /\ pre.locked /\ DepsAllLocked /\ MismatchedAtStart # {}) =>
        /\ pc \in {"CHECKING", "PRESENT", "STALE"}
        /\ pc = "STALE" => reported = MismatchedAtStart
        /\ ~worked
        /\ lockfile[target] = pre

C2_Witness ==
    /\ pc = "STALE"
    /\ pre.locked
    /\ DepsAllLocked
    /\ \E d \in Deps[target] :
          /\ RecordedAtStart(d) # Empty
          /\ RecordedAtStart(d) # LockedSignature(d)
          /\ d \in reported
    /\ lockfile[target] = pre

\* ------------------------------------------------------------------- C3
\* C3 as stated: a run of a locked step whose dependencies are locked and
\* whose recorded dependency signatures all match (the LOCKFILEs' and the live
\* ones) never deletes the step's LOCKFILE and never invokes the work.
C3_CacheHitSkipsWork ==
    (/\ pc # "IDLE"
     /\ pre.locked
     /\ DepsAllLocked
     /\ MismatchedAtStart = {}
     /\ \A d \in Deps[target] : RecordedAtStart(d) = Signature(d)) =>
        (~worked /\ lockfile[target] = pre)

\* C3 (amended): a run of a locked step whose dependencies are locked and whose
\* recorded dependency signatures equal the signatures in the dependencies'
\* LOCKFILEs key by key reports neither "not cached" nor a mismatch; it
\* proceeds to delete the LOCKFILE and run the step, and never ends without
\* having invoked the work.
C3_MatchProceeds ==
    (pc # "IDLE" /\ pre.locked /\ DepsAllLocked /\ MismatchedAtStart = {}) =>
        /\ pc \notin {"NOT_CACHED", "STALE"}
        /\ pc \in Terminal => worked
        /\ pc \in {"INVALIDATED", "RUNNING", "FINISHED"} => ~IsLocked(target)

C3_Witness ==
    /\ pc = "COMMITTED"
    /\ pre.locked
    /\ DepsAllLocked
    /\ Deps[target] # {}
    /\ MismatchedAtStart = {}
    /\ worked

\* ------------------------------------------------------------------- C4
\* C4 as stated: a finished run of a step that had no LOCKFILE and whose
\* dependencies are all locked has executed the work.
C4_ColdStartRuns ==
    (pc \in Terminal \ {"IDLE"} /\ ~pre.locked /\ DepsAllLocked) => worked

\* C4 (amended): for a step with no LOCKFILE whose dependencies, if any, are
\* all locked, a run reports that the data is not cached, naming the step, and
\* errors out: the work is never executed and IsLocked stays false.
C4_ColdStartNotCached ==
    (pc # "IDLE" /\ ~pre.locked /\ DepsAllLocked) =>
        /\ pc \in {"CHECKING", "NOT_CACHED"}
        /\ pc = "NOT_CACHED" => target \in reported
        /\ ~worked
        /\ ~IsLocked(target)

C4_Witness ==
    /\ pc = "NOT_CACHED"
    /\ ~pre.locked
    /\ DepsAllLocked
    /\ target \in reported
    /\ ~IsLocked(target)

\* ------------------------------------------------------------------- C5
\* C5 as stated: the LOCKFILE written at commit holds the dependency signatures
\* captured when the LOCKFILE was deleted, and the step's own signature
\* computed after the run.
C5_CommitAtInvalidation ==
    [][(pc = "FINISHED" /\ pc' = "COMMITTED") =>
          /\ lockfile'[target].deps = depsAtInvalidate
          /\ lockfile'[target].own = Signature(target)]_vars

\* C5 (amended): the LOCKFILE written at commit holds the dependencies' live
\* signatures as they are at commit, after the run, and the step's own
\* signature computed after the run; a change to a dependency's datafiles
\* while the step runs is therefore recorded.
C5_CommitCorrectness ==
    [][(pc = "FINISHED" /\ pc' = "COMMITTED") =>
          /\ lockfile'[target].locked
          /\ lockfile'[target].deps = DependencySignatures(target)
          /\ lockfile'[target].own = Signature(target)
          /\ art' = art]_vars

C5_Witness ==
    /\ pc = "COMMITTED"
    /\ lockfile[target] = GenerateLock(target)
    /\ \E d \in Deps[target] : depsAtInvalidate[d] # lockfile[target].deps[d]

\* ------------------------------------------------------------------- C6
\* C6: if a dependency of the current step has no LOCKFILE, the run reports
\* the dependencies without LOCKFILE as not cached and ends there: the step's
\* LOCKFILE is neither deleted nor written and the work is not invoked, whether
\* or not the step itself is locked.
C6_MissingDependency ==
    (pc # "IDLE" /\ ~DepsAllLocked) =>
        /\ pc \in {"CHECKING", "NOT_CACHED"}
        /\ pc = "NOT_CACHED" =>
              {d \in Deps[target] : ~IsLocked(d)} \subseteq reported
        /\ ~worked
        /\ lockfile[target] = pre

C6_Witness ==
    /\ pc = "NOT_CACHED"
    /\ pre.locked
    /\ \E d \in Deps[target] : ~IsLocked(d) /\ d \in reported
    /\ lockfile[target] = pre

\* ------------------------------------------------------------------- C7
\* C7: whenever the work of the current step is executing, the step has no
\* LOCKFILE on disk: the delete precedes the start of the work.
C7_InvalidateBeforeRun ==
    pc \in {"INVALIDATED", "RUNNING"} => ~IsLocked(target)

C7_Witness ==
    /\ pc = "RUNNING"
    /\ worked
    /\ pre.locked
    /\ previous = pre
    /\ ~IsLocked(target)

\* ------------------------------------------------------------------- C8
\* C8 as stated: the next finished run of a step whose run was interrupted,
\* with its dependencies locked, has executed the work again.
C8_RerunAfterInterrupt ==
    (/\ target \in interrupted
     /\ pc \in Terminal \ {"IDLE", "INTERRUPTED"}
     /\ DepsAllLocked) => worked

\* C8 (amended): a step whose run was interrupted while its work executed has
\* no LOCKFILE afterwards, and a later run of it reports that the data is not
\* cached and errors out without executing the work; no interrupted run leaves
\* a LOCKFILE that a later run treats as valid.
C8_InterruptLeavesUncached ==
    /\ \A s \in interrupted : ~IsLocked(s)
    /\ (target \in interrupted /\ pc \notin {"IDLE", "INTERRUPTED"}) =>
          /\ pc \in {"CHECKING", "NOT_CACHED"}
          /\ pc = "NOT_CACHED" => target \in reported
          /\ ~worked

C8_Witness ==
    /\ target \in interrupted
    /\ pc = "NOT_CACHED"
    /\ DepsAllLocked
    /\ ~IsLocked(target)
    /\ ~worked

C11_OwnershipFrame ==
    [][\A s \in Stages :
          lockfile'[s] # lockfile[s] => (s = target /\ s = target')]_vars

C11_Witness ==
    /\ pc = "COMMITTED"
    /\ lockfile[target] # pre
    /\ \E d \in Deps[target] :
          /\ IsLocked(d)
          /\ LockedSignature(d) # Signature(d)

\* ------------------------------------------------------------------ C13
\* The runner state a position of the run stands for.  CHECKING lasts until
\* the comparison has classified the run; RUNNING lasts from the start of the
\* step until the run has dealt with the LOCKFILE.  A run whose step failed is
\* ROLLED_BACK only when it has overwritten no files, lock.go 24-25: otherwise
\* nothing is re-written, and the run is FAILED.
RunnerState ==
    CASE pc \in {"CHECKING", "PRESENT"} -> "CHECKING"
      [] pc = "MATCHED" -> "VALID_CACHE"
      [] pc \in {"RUNNING", "FINISHED"} -> "RUNNING"
      [] pc = "FAILED" /\ ~overwritten -> "ROLLED_BACK"
      [] OTHER -> pc

\* The transitions C13 lists.
StatedTransitions ==
    {<<"CHECKING", "NOT_CACHED">>, <<"CHECKING", "VALID_CACHE">>,
     <<"CHECKING", "STALE">>, <<"VALID_CACHE", "DONE">>,
     <<"NOT_CACHED", "INVALIDATED">>, <<"STALE", "INVALIDATED">>,
     <<"INVALIDATED", "RUNNING">>, <<"RUNNING", "COMMITTED">>,
     <<"RUNNING", "ROLLED_BACK">>}

\* The transitions of the protocol: "not cached" and a mismatch end the run,
\* matching signatures lead on to the delete and the run of the step, and a
\* step that fails after overwriting files ends the run without a rollback.
ProtocolTransitions ==
    {<<"CHECKING", "NOT_CACHED">>, <<"CHECKING", "VALID_CACHE">>,
     <<"CHECKING", "STALE">>, <<"VALID_CACHE", "INVALIDATED">>,
     <<"INVALIDATED", "RUNNING">>, <<"RUNNING", "COMMITTED">>,
     <<"RUNNING", "ROLLED_BACK">>, <<"RUNNING", "FAILED">>,
     <<"RUNNING", "INTERRUPTED">>}

\* The steps of the run inside the runner states CHECKING and RUNNING.
InnerSteps ==
    {<<"CHECKING", "PRESENT">>, <<"RUNNING", "FINISHED">>}

\* The positions from which each runner state other than CHECKING is entered.
EnteredFrom ==
    [st \in {"NOT_CACHED", "VALID_CACHE", "STALE", "INVALIDATED", "RUNNING",
             "COMMITTED", "ROLLED_BACK", "FAILED", "INTERRUPTED"} |->
        CASE st = "NOT_CACHED" -> "CHECKING"
          [] st \in {"VALID_CACHE", "STALE"} -> "PRESENT"
          [] st = "INVALIDATED" -> "MATCHED"
          [] st = "RUNNING" -> "INVALIDATED"
          [] st = "INTERRUPTED" -> "RUNNING"
          [] OTHER -> "FINISHED"]

\* C13 as stated: within a run the runner state changes only along the listed
\* transitions (an interruption of the run left aside).
C13_StatedTransitions ==
    [][(runs' = runs /\ RunnerState' # RunnerState /\ pc' # "INTERRUPTED") =>
          <<RunnerState, RunnerState'>> \in StatedTransitions]_vars

\* C13 (amended): within a run the runner state changes only along
\* CHECKING -> {NOT_CACHED | STALE | VALID_CACHE}, VALID_CACHE -> INVALIDATED
\* -> RUNNING -> {COMMITTED | ROLLED_BACK | FAILED}, or from RUNNING by
\* interruption while the step runs.  ROLLED_BACK is entered with the old
\* LOCKFILE re-written, by a failed step that overwrote no files; FAILED is
\* entered with the LOCKFILE still deleted, by a failed step that overwrote
\* files; COMMITTED is entered by a step that succeeded.  A run in NOT_CACHED
\* or STALE has ended and goes no further.
C13_RunnerTransitions ==
    [][(runs' = runs /\ pc' # pc) =>
          /\ \/ /\ RunnerState' = RunnerState
                /\ <<pc, pc'>> \in InnerSteps
             \/ /\ <<RunnerState, RunnerState'>> \in ProtocolTransitions
                /\ pc = EnteredFrom[RunnerState']
          /\ RunnerState' = "ROLLED_BACK" =>
                (outcome = "failed" /\ lockfile'[target] = previous)
          /\ RunnerState' = "FAILED" =>
                (outcome = "failed" /\ ~IsLocked(target)')
          /\ RunnerState' = "COMMITTED" => outcome = "ok"]_vars

C13_Witness ==
    /\ RunnerState = "FAILED"
    /\ overwritten
    /\ worked
    /\ pre.locked
    /\ previous = pre
    /\ ~IsLocked(target)

\* ------------------------------------------------------------------ C14
\* C14 as stated: a run that has verified the signatures of a locked step
\* while a dependency's live signature differed from the recorded one, the
\* dependency's LOCKFILE still holding the recorded one, is classified STALE.
C14_LiveComparison ==
    (pc \in AfterVerify /\ pre.locked) =>
        \A d \in Deps[target] :
            (/\ RecordedAtStart(d) = LockedSignature(d)
             /\ RecordedAtStart(d) # seenLive[d]) => pc = "STALE"

\* C14 (amended): the check compares the recorded dependency signatures with
\* the signatures contained in the dependencies' LOCKFILEs, not with
\* signatures recomputed from the datafiles: a run that has verified is
\* classified STALE exactly when a recorded signature differs from the one in
\* the dependency's LOCKFILE, whatever the dependency's datafiles are.
C14_StoredComparison ==
    (pc \in AfterVerify /\ pre.locked) =>
        (pc = "STALE" <=> MismatchedAtStart # {})

C14_Witness ==
    /\ pc = "MATCHED"
    /\ pre.locked
    /\ \E d \in Deps[target] :
          /\ RecordedAtStart(d) = LockedSignature(d)
          /\ RecordedAtStart(d) # seenLive[d]

\* ------------------------------------------------------------------ C17
\* C17 as stated: a later run of a locked step that verifies its signatures
\* while a recorded dependency signature differs from the dependency's live
\* signature aborts as STALE and leaves the step's LOCKFILE unchanged; it never
\* gets to the delete or the run of the step.
C17_StickyOnLive ==
    (/\ runs >= 2
     /\ pre.locked
     /\ pc \in AfterVerify
     /\ \E d \in Deps[target] : RecordedAtStart(d) # seenLive[d]) =>
        (pc = "STALE" /\ lockfile[target] = pre)

\* C17 (amended): while a recorded dependency signature of a locked step
\* differs from the signature in the dependency's LOCKFILE (or the dependency
\* has no LOCKFILE), no step of the protocol changes the step's LOCKFILE, and
\* the mismatch is still there after every step that leaves the dependencies'
\* LOCKFILEs as they are; a run of the step that began in this condition is
\* never past the verification: it has not run the step, the LOCKFILE is the
\* one it began with, and it ends as STALE reporting the mismatched
\* dependencies, or as NOT_CACHED when a dependency has no LOCKFILE.
C17_StickyStale ==
    /\ [][\A s \in Stages :
            (IsLocked(s) /\ Mismatched(s) # {}) =>
                /\ lockfile'[s] = lockfile[s]
                /\ (\A d \in Deps[s] : lockfile'[d] = lockfile[d])
                      => Mismatched(s)' # {}]_vars
    /\ []((pre.locked /\ MismatchedAtStart # {}) =>
            /\ ~worked
            /\ lockfile[target] = pre
            /\ \/ pc \in {"CHECKING", "PRESENT"}
               \/ /\ pc = "STALE"
                  /\ DepsAllLocked
                  /\ reported = MismatchedAtStart
               \/ /\ pc = "NOT_CACHED"
                  /\ ~DepsAllLocked)

C17_Witness ==
    /\ pc = "STALE"
    /\ runs >= 2
    /\ IsLocked(target)
    /\ lockfile[target] = pre
    /\ \E d \in Deps[target] :
          /\ d \in reported
          /\ IsLocked(d)
          /\ RecordedDependency(target, d) # LockedSignature(d)
          /\ LockedSignature(d) = Signature(d)
          /\ changes > 0

\* ------------------------------------------------------------------ C18
\* The commands of the last call that are a `git checkout`.
CheckoutsRun == {i \in DOMAIN last.cmds : last.cmds[i].argv[2] = "checkout"}

\* C18: disposing the handle of a successful Checkout runs `git checkout` of
\* the ref HEAD had before that Checkout, the branch name when HEAD was on a
\* branch and the commit hash when it was detached, and when that succeeds HEAD
\* is where it was; a Checkout that fails returns no handle and runs no
\* `git checkout` after the failure.
C18_CheckoutRestore ==
    /\ (last.op = "Checkout" /\ last.err = "nil") =>
          /\ last.handle # NoHandle
          /\ last.handle \in handles
          /\ headRef = CheckedOutRef(last.handle.rev)
    /\ (last.op = "ResetHead" /\ last.chdirOk) =>
          /\ Len(last.cmds) = 1
          /\ last.cmds[1].argv[1] = "git"
          /\ last.cmds[1].argv[2] = "checkout"
          /\ last.disposed.wasRef # "HEAD" =>
                last.cmds[1].argv[3] = last.disposed.wasRef
          /\ last.disposed.wasRef = "HEAD" =>
                last.cmds[1].argv[3] = last.disposed.wasSha
    /\ (last.op = "ResetHead" /\ last.err = "nil") =>
          /\ headRef = last.disposed.wasRef
          /\ headSha = last.disposed.wasSha
    /\ (last.op = "Checkout" /\ last.err # "nil") =>
          /\ last.handle = NoHandle
          /\ \A i \in CheckoutsRun :
                i = Len(last.cmds) /\ last.err = "checkoutErr"
          /\ last.err \in {"chdirErr", "headRefErr", "headShaErr"} =>
                CheckoutsRun = {}

C18_Witness ==
    /\ last.op = "ResetHead"
    /\ last.err = "nil"
    /\ last.disposed.wasRef = "master"
    /\ last.disposed.rev = "c2"
    /\ last.cmds[1].argv = <<"git", "checkout", "master">>
    /\ headRef = "master"
    /\ headSha = Tip["master"]

\* ------------------------------------------------------------------ C19
\* C19: every call of Fetch, Checkout, ConfigureBuild, Build and resetHead
\* leaves the process in the working directory it was in before the call, on
\* success and on every error return; when ScopedChdir fails the call returns
\* that error and has run no command.
C19_ScopedWorkingDirectory ==
    last.op \in {"Fetch", "Checkout", "ConfigureBuild", "Build",
                 "ResetHead"} =>
        /\ last.after = last.before
        /\ ~last.chdirOk =>
              (last.err = "chdirErr" /\ last.cmds = <<>>
                 /\ last.handle = NoHandle)
        /\ last.chdirOk => last.err # "chdirErr"

C19_Witness ==
    /\ last.op = "Build"
    /\ last.chdirOk
    /\ last.err = "buildErr"
    /\ last.cmds = <<RunIn(buildRoot, <<"make", "-j4">>)>>
    /\ last.before = "/home"
    /\ last.after = "/home"
    /\ cwd = "/home"

\* ------------------------------------------------------------------ C20
\* The pairs of a capital letter and its small letter, for the small letters
\* of ASCII: A to Z, and the two capitals outside ASCII whose small letter is
\* an ASCII one, capital I with dot above and the Kelvin sign.
CasePairs ==
    {<<Rune(UpperCase[i]), Rune(LowerCase[i])>> : i \in DOMAIN UpperCase}
      \cup {<<Rune("U+0130"), Rune("i")>>, <<Rune("U+212A"), Rune("k")>>}

\* Two characters that are the same letter, whatever their case: they are
\* equal, one is the capital of the other, or both are capitals of one letter.
SameLetter(x, y) ==
    \/ x = y
    \/ <<x, y>> \in CasePairs
    \/ <<y, x>> \in CasePairs
    \/ \E l \in {p[2] : p \in CasePairs} :
          <<x, l>> \in CasePairs /\ <<y, l>> \in CasePairs

\* Two strings equal when case is ignored.
EqualFold(a, b) ==
    Len(a) = Len(b) /\ \A i \in 1..Len(a) : SameLetter(a[i], b[i])

\* The last call ran `git fetch origin`.
FetchRun == \E i \in DOMAIN last.cmds : last.cmds[i].argv = GitFetch

\* C20: Fetch runs `git fetch origin` only when remote.origin.url, compared
\* case-insensitively, is the canonical HTTPS or SSH remote; for any other
\* origin URL, and when the URL cannot be read, Fetch returns an error and
\* `git fetch` is not run.
C20_FetchGuard ==
    last.op = "Fetch" =>
        /\ FetchRun =>
              (EqualFold(originURL, bitfunnelHTTPSRemote)
                 \/ EqualFold(originURL, bitfunnelSSHRemote))
        /\ (~EqualFold(originURL, bitfunnelHTTPSRemote)
              /\ ~EqualFold(originURL, bitfunnelSSHRemote)) =>
              (last.err # "nil" /\ ~FetchRun)
        /\ last.err = "originURLErr" => ~FetchRun
        /\ last.err = "nil" => FetchRun

C20_Witness ==
    /\ last.op = "Fetch"
    /\ originURL = MixedSSHRemote
    /\ originURL # bitfunnelSSHRemote
    /\ FetchRun
    /\ last.err = "nil"

\* ------------------------------------------------------------------ C12
\* The last computation read the files of the one before and one extra file.
OneExtraFile ==
    \E f \in sigLast.files :
        /\ f \notin sigPrev.files
        /\ sigLast.files = sigPrev.files \cup {f}

\* C12: the signature of a file set is the same in whatever order the files
\* are enumerated, it differs from the signature of the file set with one
\* extra file added, and two signatures are equal exactly when the file sets
\* they were computed from are identical.
C12_SignatureDeterminism ==
    (sigPrev.done /\ sigLast.done) =>
        /\ sigPrev.files = sigLast.files => sigPrev.value = sigLast.value
        /\ sigLast.reordered => sigPrev.value = sigLast.value
        /\ OneExtraFile => sigPrev.value # sigLast.value
        /\ sigPrev.value = sigLast.value <=> sigPrev.files = sigLast.files

C12_Witness ==
    /\ sigPrev.done
    /\ sigLast.done
    /\ Cardinality(sigLast.files) = MaxFiles
    /\ sigPrev.files = sigLast.files
    /\ sigLast.reordered
    /\ sigPrev.value = sigLast.value

\* ------------------------------------------------------------------ C15
\* The file holds a complete record.
Whole(file) ==
    /\ file.present
    /\ \E r \in StoreRecords : file.cached = Serialize(r)

\* C15: whatever step of save or of a run a crash interrupts, the LOCKFILE of
\* the stage is the old record, absent, or the complete new record, never a
\* partially written one; and the record of a save that has returned is still
\* there after a crash.
C15_AtomicStore ==
    /\ lockPath = NoFile \/ Whole(lockPath)
    /\ \/ lockPath = NoFile
       \/ lockPath = storeOld
       \/ lockPath.cached = Serialize(storeArg)
    /\ storePc # "idle" => lockPath = storeOld
    /\ saved # NoLock =>
          (lockPath.present /\ lockPath.cached = Serialize(saved))

C15_Witness ==
    /\ saved # NoLock
    /\ lockPath.cached = Serialize(saved)
    /\ storePc = "idle"
    /\ storeArg # saved
    /\ tmpPath.present
    /\ tmpPath.cached = <<storeArg.own>>
====
